---- MODULE Spec2Model ----
(***************************************************************************)
(* Crypto Tracker Bot (src/bot.py): the position ledger (users, wallets,   *)
(* contract addresses, calls), the two conversations (add wallet and       *)
(* buy/sell) as the dispatcher of main() routes updates to them, the PnL   *)
(* computation, and get_current_prices behind its price_cache.             *)
(*                                                                         *)
(* Modelling conventions                                                   *)
(*  - A text message is a sequence of one-character strings.               *)
(*  - A Python float is a record [k, v]: k = "fin" with v the value in     *)
(*    tenths, or k in {"nan", "inf", "-inf"}.  Prices are whole numbers,   *)
(*    so a product price * units is a number of tenths as well.            *)
(*  - An absent document (None) is the record NoneDoc, an absent key of    *)
(*    context.user_data is "unset" / <<>> / NoUnits.                       *)
(*  - The application is built without concurrent_updates, so one update   *)
(*    is handled to completion before the next: one action per handler.    *)
(*  - The MongoDB store and the Telegram API are taken to be available.    *)
(***************************************************************************)
EXTENDS Integers, Sequences, FiniteSets, TLC

VARIABLES users, calls, conv_add_wallet, conv_buy_sell, user_data,
          session_inputs, oracle, update, reply, callers, probe,
          price_cache, requests, clock, upstream_fetches,
          inbox, running, finished

vars == <<users, calls, conv_add_wallet, conv_buy_sell, user_data,
          session_inputs, oracle, update, reply, callers, probe,
          price_cache, requests, clock, upstream_fetches,
          inbox, running, finished>>

\* ------------------------------------------------------------------ bounds

MaxCalls == 1
MaxWallets == 1

\* ------------------------------------------------------- program constants

ADD_WALLET == 1
TRANSACTION_GET_ACTION == 0
TRANSACTION_GET_SYMBOL == 1
TRANSACTION_GET_UNITS == 2
TRANSACTION_SELECT_WALLET == 3
END == -1
TopN == 10

\* -------------------------------------------------------------------- text

LowerChars == <<"a","b","c","d","e","f","g","h","i","j","k","l","m",
                "n","o","p","q","r","s","t","u","v","w","x","y","z">>
UpperChars == <<"A","B","C","D","E","F","G","H","I","J","K","L","M",
                "N","O","P","Q","R","S","T","U","V","W","X","Y","Z">>
DigitChars == <<"0","1","2","3","4","5","6","7","8","9">>

Range(s) == {s[i] : i \in DOMAIN s}

IndexOf(s, c) == CHOOSE i \in DOMAIN s : s[i] = c

\* str.upper(), character by character
UpperChar(c) == IF c \in Range(LowerChars) THEN UpperChars[IndexOf(LowerChars, c)] ELSE c

Upper(s) == [i \in DOMAIN s |-> UpperChar(s[i])]

LowerChar(c) == IF c \in Range(UpperChars) THEN LowerChars[IndexOf(UpperChars, c)] ELSE c

Lower(s) == [i \in DOMAIN s |-> LowerChar(s[i])]

RECURSIVE LStrip(_)
LStrip(s) == IF s # <<>> /\ Head(s) = " " THEN LStrip(Tail(s)) ELSE s

RECURSIVE RStrip(_)
RStrip(s) == IF s # <<>> /\ s[Len(s)] = " " THEN RStrip(SubSeq(s, 1, Len(s) - 1)) ELSE s

\* str.strip()
Strip(s) == RStrip(LStrip(s))

Rep(c, n) == [i \in 1..n |-> c]

\* the base58 alphabet of the pattern '^[1-9A-HJ-NP-Za-km-z]+$'
Base58Chars == (Range(DigitChars) \ {"0"})
               \cup (Range(UpperChars) \ {"I", "O"})
               \cup (Range(LowerChars) \ {"l"})

validate_sol_address(address) ==
    IF Len(address) \notin {43, 44}
    THEN FALSE
    ELSE \A i \in DOMAIN address : address[i] \in Base58Chars

\* the pattern without its length limit, '^[A-Z]+$'
MatchSymbol_nolimit(s) == s # <<>> /\ \A i \in DOMAIN s : s[i] \in Range(UpperChars)

\* re.match(r'^[A-Z]{1,5}$', crypto_symbol)
MatchSymbol(s) == Len(s) \in 1..5 /\ \A i \in DOMAIN s : s[i] \in Range(UpperChars)

\* ------------------------------------------------------------------ floats

Fin(v) == [k |-> "fin", v |-> v]
NaN == [k |-> "nan", v |-> 0]
PosInf == [k |-> "inf", v |-> 0]
NegInf == [k |-> "-inf", v |-> 0]
ValueError == [k |-> "ValueError", v |-> 0]
NoUnits == [k |-> "unset", v |-> 0]

IsDigits(s) == \A i \in DOMAIN s : s[i] \in Range(DigitChars)

RECURSIVE DigitsValue(_)
DigitsValue(s) ==
    IF s = <<>> THEN 0
    ELSE 10 * DigitsValue(SubSeq(s, 1, Len(s) - 1)) + (IndexOf(DigitChars, s[Len(s)]) - 1)

\* the digits before and after the decimal point of an unsigned decimal
DotAt(s) == IF "." \in Range(s) THEN IndexOf(s, ".") ELSE Len(s) + 1

IntPart(s) == SubSeq(s, 1, DotAt(s) - 1)

FracPart(s) == SubSeq(s, DotAt(s) + 1, Len(s))

\* an unsigned decimal literal, in tenths (digits after the first decimal are dropped)
ParseDecimal(s) ==
    IF /\ IsDigits(IntPart(s))
       /\ IsDigits(FracPart(s))
       /\ Len(IntPart(s)) + Len(FracPart(s)) >= 1
    THEN Fin(10 * DigitsValue(IntPart(s))
             + (IF FracPart(s) = <<>> THEN 0 ELSE DigitsValue(SubSeq(FracPart(s), 1, 1))))
    ELSE ValueError

Negate(x) ==
    CASE x.k = "fin" -> Fin(0 - x.v)
      [] x.k = "inf" -> NegInf
      [] x.k = "-inf" -> PosInf
      [] OTHER -> x

ParseUnsigned(s) ==
    CASE Lower(s) = <<"n","a","n">> -> NaN
      [] Lower(s) \in {<<"i","n","f">>, <<"i","n","f","i","n","i","t","y">>} -> PosInf
      [] OTHER -> ParseDecimal(s)

\* float(text): an optionally signed decimal, nan, inf or infinity
ParseFloat(s) ==
    CASE s = <<>> -> ValueError
      [] Head(s) = "-" -> Negate(ParseUnsigned(Tail(s)))
      [] Head(s) = "+" -> ParseUnsigned(Tail(s))
      [] OTHER -> ParseUnsigned(s)

LeqZero_strict(x) ==
    CASE x.k = "fin" -> x.v < 0
      [] x.k = "-inf" -> TRUE
      [] OTHER -> FALSE

\* number_of_units <= 0 : every comparison with nan is False
LeqZero(x) ==
    CASE x.k = "fin" -> x.v <= 0
      [] x.k = "-inf" -> TRUE
      [] OTHER -> FALSE

\* x * y for a whole number x and a float y
Scale(x, y) ==
    CASE y.k = "fin" -> Fin(x * y.v)
      [] y.k = "nan" -> NaN
      [] x = 0 -> NaN
      [] x > 0 -> y
      [] OTHER -> Negate(y)

\* a + b on floats
FAdd(a, b) ==
    CASE a.k = "nan" \/ b.k = "nan" -> NaN
      [] a.k = "fin" /\ b.k = "fin" -> Fin(a.v + b.v)
      [] a.k = "fin" -> b
      [] b.k = "fin" -> a
      [] a.k = b.k -> a
      [] OTHER -> NaN

\* a > b on floats
FGreater(a, b) ==
    CASE a.k = "nan" \/ b.k = "nan" -> FALSE
      [] a.k = "fin" /\ b.k = "fin" -> a.v > b.v
      [] a.k = b.k -> FALSE
      [] OTHER -> a.k = "inf" \/ b.k = "-inf"

\* ------------------------------------------------------- inputs of the model

TelegramIds == {1, 2}

\* update.effective_user.username: user 1 has one, user 2 has none
UsernameOf(t) == IF t = 1 THEN "alice" ELSE ""

\* the values str(uuid.uuid4())[:8] can take
Uuids == {"w1"}
ContractUuids == {"c1"}

T_SOL == <<"S","O","L">>
T_BTC == <<"B","T","C">>

\* ------------------------------------------------------------- the database

NoneDoc == [_id |-> 0, telegram_id |-> 0, username |-> "",
            wallets |-> <<>>, contract_addresses |-> <<>>]

IsNone(doc) == doc._id = 0

\* users_collection.find_one({"telegram_id": telegram_id})
find_one(coll, telegram_id) ==
    IF \E i \in DOMAIN coll : coll[i].telegram_id = telegram_id
    THEN coll[CHOOSE i \in DOMAIN coll :
                /\ coll[i].telegram_id = telegram_id
                /\ \A j \in 1..(i - 1) : coll[j].telegram_id # telegram_id]
    ELSE NoneDoc

new_user_data(coll, telegram_id, username) ==
    [_id |-> Len(coll) + 1, telegram_id |-> telegram_id, username |-> username,
     wallets |-> <<>>, contract_addresses |-> <<>>]

\* users_collection.insert_one under the unique index on telegram_id
insert_one_noindex(coll, doc) == [raised |-> FALSE, coll |-> Append(coll, doc)]

insert_one(coll, doc) ==
    IF \E i \in DOMAIN coll : coll[i].telegram_id = doc.telegram_id
    THEN [raised |-> TRUE, coll |-> coll]
    ELSE [raised |-> FALSE, coll |-> Append(coll, doc)]

get_or_create_user_nofind(coll, telegram_id, username) ==
    LET ins == insert_one_noindex(coll, new_user_data(coll, telegram_id, username))
    IN  [coll |-> ins.coll, user |-> ins.coll[Len(ins.coll)]]

\* get_or_create_user run to completion, with no other writer in between
get_or_create_user(coll, telegram_id, username) ==
    LET user == find_one(coll, telegram_id)
    IN  IF ~IsNone(user)
        THEN [coll |-> coll, user |-> user]
        ELSE LET ins == insert_one(coll, new_user_data(coll, telegram_id, username))
             IN  [coll |-> ins.coll, user |-> find_one(ins.coll, telegram_id)]

\* a $push whose filter matches every document (update_many({}, ...))
push_wallet_all(coll, telegram_id, item) ==
    [i \in DOMAIN coll |-> [coll[i] EXCEPT !.wallets = Append(@, item)]]

\* users_collection.update_one({"telegram_id": t}, {"$push": {field: item}})
push_wallet(coll, telegram_id, item) ==
    [i \in DOMAIN coll |->
        IF coll[i].telegram_id = telegram_id /\ coll[i] = find_one(coll, telegram_id)
        THEN [coll[i] EXCEPT !.wallets = Append(@, item)]
        ELSE coll[i]]

push_contract(coll, telegram_id, item) ==
    [i \in DOMAIN coll |->
        IF coll[i].telegram_id = telegram_id /\ coll[i] = find_one(coll, telegram_id)
        THEN [coll[i] EXCEPT !.contract_addresses = Append(@, item)]
        ELSE coll[i]]

\* the positional operator $: the first wallet of the array with that wallet_id
FirstWallet(wallets, wallet_id) ==
    CHOOSE j \in DOMAIN wallets :
        /\ wallets[j].wallet_id = wallet_id
        /\ \A k \in 1..(j - 1) : wallets[k].wallet_id # wallet_id

\* an update that writes the wallets back and drops the user's other lists
set_balance_replace(coll, telegram_id, wallet_id, sol_balance) ==
    [i \in DOMAIN coll |->
        IF /\ coll[i] = find_one(coll, telegram_id)
           /\ \E j \in DOMAIN coll[i].wallets : coll[i].wallets[j].wallet_id = wallet_id
        THEN [coll[i] EXCEPT
                !.wallets[FirstWallet(coll[i].wallets, wallet_id)].sol_balance = sol_balance,
                !.contract_addresses = <<>>]
        ELSE coll[i]]

\* update_one({"telegram_id": t, "wallets.wallet_id": w}, {"$set": {"wallets.$.sol_balance": b}})
set_balance(coll, telegram_id, wallet_id, sol_balance) ==
    [i \in DOMAIN coll |->
        IF /\ coll[i] = find_one(coll, telegram_id)
           /\ \E j \in DOMAIN coll[i].wallets : coll[i].wallets[j].wallet_id = wallet_id
        THEN [coll[i] EXCEPT
                !.wallets[FirstWallet(coll[i].wallets, wallet_id)].sol_balance = sol_balance]
        ELSE coll[i]]

get_sol_balance(address) == Fin(0)

\* the placeholder returns 0.0 whatever the quote provider says
get_current_price_at_call(crypto_symbol, quotes) == 0

log_call_swapped(coll, user_id, crypto_symbol, action, number_of_units, wallet_id, quotes) ==
    Append(coll, [user_id |-> user_id, crypto_symbol |-> crypto_symbol,
                  action |-> IF action = "BUY" THEN "SELL" ELSE "BUY",
                  number_of_units |-> number_of_units, wallet_id |-> wallet_id,
                  price_at_call |-> get_current_price_at_call(crypto_symbol, quotes)])

log_call(coll, user_id, crypto_symbol, action, number_of_units, wallet_id, quotes) ==
    Append(coll, [user_id |-> user_id, crypto_symbol |-> crypto_symbol,
                  action |-> action, number_of_units |-> number_of_units,
                  wallet_id |-> wallet_id,
                  price_at_call |-> get_current_price_at_call(crypto_symbol, quotes)])

\* --------------------------------------------------------------- PnL engine

calculate_profit_swapped(call, current_prices) ==
    IF call.crypto_symbol \notin DOMAIN current_prices
    THEN Fin(0)
    ELSE CASE call.action = "SELL" ->
                Scale(current_prices[call.crypto_symbol] - call.price_at_call,
                      call.number_of_units)
           [] call.action = "BUY" ->
                Scale(call.price_at_call - current_prices[call.crypto_symbol],
                      call.number_of_units)
           [] OTHER -> Fin(0)

calculate_profit(call, current_prices) ==
    IF call.crypto_symbol \notin DOMAIN current_prices
    THEN Fin(0)
    ELSE CASE call.action = "BUY" ->
                Scale(current_prices[call.crypto_symbol] - call.price_at_call,
                      call.number_of_units)
           [] call.action = "SELL" ->
                Scale(call.price_at_call - current_prices[call.crypto_symbol],
                      call.number_of_units)
           [] OTHER -> Fin(0)

\* the body of get_current_prices: the quotes of the symbols the provider knows
fetch_quotes(crypto_symbols, quotes) ==
    [s \in {Upper(x) : x \in crypto_symbols} \cap DOMAIN quotes |-> quotes[s]]

\* hashkey(crypto_symbols) is looked up in price_cache first: every caller
\* passes a list, and hashing a list raises TypeError
get_current_prices(crypto_symbols, quotes) ==
    [raised |-> TRUE, prices |-> <<>>]

\* calls_collection.distinct("crypto_symbol", filter)
distinct_symbols(coll) == {coll[i].crypto_symbol : i \in DOMAIN coll}

calls_of(coll, user_id) == SelectSeq(coll, LAMBDA c : c.user_id = user_id)

RECURSIVE total_pnl(_, _)
total_pnl(user_calls, current_prices) ==
    IF user_calls = <<>> THEN Fin(0)
    ELSE FAdd(total_pnl(SubSeq(user_calls, 1, Len(user_calls) - 1), current_prices),
              calculate_profit(user_calls[Len(user_calls)], current_prices))

UserLabel(doc) ==
    IF doc.username # "" THEN doc.username
    ELSE IF doc.telegram_id = 1 THEN "User 1" ELSE "User 2"

\* Step 3 of leaderboard_command: one row per user, in the order of users_collection
user_pnls(ucoll, ccoll, current_prices) ==
    [i \in DOMAIN ucoll |->
        [username |-> UserLabel(ucoll[i]),
         pnl |-> total_pnl(calls_of(ccoll, ucoll[i]._id), current_prices)]]

\* where sorted() puts x among rows already in descending order: after every
\* row that is not smaller, so that equal keys keep their order
InsertPos(rows, x) ==
    IF \E j \in DOMAIN rows : FGreater(x.pnl, rows[j].pnl)
    THEN CHOOSE j \in DOMAIN rows :
            /\ FGreater(x.pnl, rows[j].pnl)
            /\ \A k \in 1..(j - 1) : ~FGreater(x.pnl, rows[k].pnl)
    ELSE Len(rows) + 1

RECURSIVE sorted_desc(_)
sorted_desc(rows) ==
    IF rows = <<>> THEN <<>>
    ELSE LET init == sorted_desc(SubSeq(rows, 1, Len(rows) - 1))
             x == rows[Len(rows)]
             p == InsertPos(init, x)
         IN  SubSeq(init, 1, p - 1) \o <<x>> \o SubSeq(init, p, Len(init))

\* user_pnls_sorted[:10]
top_rows(rows) == SubSeq(rows, 1, IF Len(rows) < TopN THEN Len(rows) ELSE TopN)

\* ------------------------------------------------------------ update inputs

ADDR_A == Rep("A", 43)
ADDR_B == Rep("b", 44)
ADDR_ZERO == Rep("0", 43)
ADDR_SHORT == Rep("A", 42)

\* what a user may type at each step
AddressTexts == {<<" ">> \o ADDR_B, ADDR_ZERO, ADDR_SHORT}
ContractTexts == {ADDR_A, T_SOL}
SymbolTexts == {T_SOL, <<" ","s","o","l">>, <<"S","O","L","A","N","A">>, ADDR_A}
UnitsTexts == {<<"2",".","5">>, <<"-","5">>, <<"0">>, <<"a","b","c">>,
               <<"n","a","n">>, <<"-","i","n","f">>}

\* the callback data the patterns of main() name
HelpChoices == {"help_wallets", "help_transactions", "help_portfolio",
                "help_leaderboard", "back_to_main"}
StartChoices == {"add_wallet", "buy_sell", "portfolio", "leaderboard", "help"}
ActionChoices == {"BUY", "SELL"}

\* the buttons and commands the users of the model send
HelpInputs == {"back_to_main"}
StartInputs == {"buy_sell"}
WalletInputs == Uuids \cup {"stale"}
OtherCallbacks == {"stale"}
OtherCommands == {"cancel", "buy"}

\* user 1 uses every command and conversation; user 2 only pastes addresses
Traders == {1}

\* the quote provider's data
OracleStates == {[s \in {T_SOL} |-> 100]}

\* ----------------------------------------------------------------- routing

\* a registration with the text handler of the contract addresses ahead of the
\* conversations
Route_capture_first(kind, data, cw, cb) ==
    IF kind = "command" THEN
        IF data = "start" THEN "start_command"
        ELSE IF data = "help" THEN "help_command"
        ELSE IF data = "share" THEN "share_command"
        ELSE IF cw = END /\ data = "addwallet" THEN "addwallet_start"
        ELSE IF cw # END /\ data = "cancel" THEN "addwallet_cancel"
        ELSE IF cb = END /\ data \in {"buy", "sell"} THEN "buy_sell_start"
        ELSE IF cb # END /\ data = "cancel" THEN "buy_sell_cancel"
        ELSE IF data = "leaderboard" THEN "leaderboard_command"
        ELSE IF data = "portfolio" THEN "portfolio_command"
        ELSE "none"
    ELSE IF kind = "callback" THEN
        IF data \in HelpChoices THEN "help_menu_handler"
        ELSE IF data \in StartChoices THEN "start_menu_handler"
        ELSE IF cb \in {END, TRANSACTION_GET_ACTION} /\ data \in ActionChoices
             THEN "transaction_select_action"
        ELSE IF cb = TRANSACTION_SELECT_WALLET THEN "transaction_select_wallet"
        ELSE "none"
    ELSE "handle_contract_address"

\* Application.process_update over the handlers of group 0, in the order main()
\* adds them: the first handler whose check_update accepts the update runs, and
\* a ConversationHandler accepts an update only through its entry points (no
\* conversation open) or through the handlers of its state and its fallbacks
Route(kind, data, cw, cb) ==
    IF kind = "command" THEN
        IF data = "start" THEN "start_command"
        ELSE IF data = "help" THEN "help_command"
        ELSE IF data = "share" THEN "share_command"
        ELSE IF cw = END /\ data = "addwallet" THEN "addwallet_start"
        ELSE IF cw # END /\ data = "cancel" THEN "addwallet_cancel"
        ELSE IF cb = END /\ data \in {"buy", "sell"} THEN "buy_sell_start"
        ELSE IF cb # END /\ data = "cancel" THEN "buy_sell_cancel"
        ELSE IF data = "leaderboard" THEN "leaderboard_command"
        ELSE IF data = "portfolio" THEN "portfolio_command"
        ELSE "none"
    ELSE IF kind = "callback" THEN
        IF data \in HelpChoices THEN "help_menu_handler"
        ELSE IF data \in StartChoices THEN "start_menu_handler"
        ELSE IF cb \in {END, TRANSACTION_GET_ACTION} /\ data \in ActionChoices
             THEN "transaction_select_action"
        ELSE IF cb = TRANSACTION_SELECT_WALLET THEN "transaction_select_wallet"
        ELSE "none"
    ELSE
        IF cw = ADD_WALLET THEN "addwallet_receive"
        ELSE IF cb = TRANSACTION_GET_SYMBOL THEN "transaction_get_symbol"
        ELSE IF cb = TRANSACTION_GET_UNITS THEN "transaction_get_units"
        ELSE "handle_contract_address"

\* ConversationHandler keeps one state per (chat id, user id), its default
\* per_chat and per_user.  The key is written as the chat id: the id of a
\* private chat is the id of its user, and in this model one user writes in
\* each chat.
RouteOf(chat_id, kind, data) ==
    Route(kind, data, conv_add_wallet[chat_id], conv_buy_sell[chat_id])

\* ------------------------------------------------------------------- state

NoUserData == [transaction_action |-> "unset", crypto_symbol |-> <<>>,
               number_of_units |-> NoUnits, selected_wallet_id |-> "unset"]

NoInputs == [transaction_action |-> "unset", crypto_symbol |-> <<>>,
             number_of_units |-> NoUnits]

NoUpdate == [user |-> 0, kind |-> "none", data |-> "", text |-> <<>>]

NoReply == [handler |-> "none", msg |-> "none", rows |-> <<>>, price_requests |-> <<>>]

\* the concurrent callers of get_or_create_user, each at a line of it
Callers == {1, 2, 3}

IdleCaller == [pc |-> "idle", telegram_id |-> 0, via |-> "none", ret |-> NoneDoc]

NoCallers == [p \in Callers |-> IdleCaller]

NoProbe == [fn |-> "none", call |-> <<>>, prices |-> <<>>, out |-> Fin(0)]

\* a caller of get_current_prices that is not in a call
IdleRequest == [pc |-> "idle", crypto_symbols |-> {}, at |-> 0, prices |-> <<>>]

NoRequests == [p \in Callers |-> IdleRequest]

Init ==
    /\ users = <<>>
    /\ calls = <<>>
    /\ conv_add_wallet = [t \in TelegramIds |-> END]
    /\ conv_buy_sell = [t \in TelegramIds |-> END]
    /\ user_data = [t \in TelegramIds |-> NoUserData]
    /\ session_inputs = [t \in TelegramIds |-> NoInputs]
    /\ oracle \in OracleStates
    /\ update = NoUpdate
    /\ reply = NoReply
    /\ callers = NoCallers
    /\ probe = NoProbe
    /\ price_cache = {}
    /\ requests = NoRequests
    /\ clock = 0
    /\ upstream_fetches = {}
    /\ inbox = <<>>
    /\ running = {}
    /\ finished = <<>>

\* the updates the dispatcher holds: those that wait, those whose handler is
\* running, and the order in which handlers have returned
Dispatcher == <<inbox, running, finished>>

\* the handler of upd returns: the earliest running one, if the update came
\* through the dispatcher's queue
Returned(upd) ==
    LET mine == {r \in running : r.update = upd}
        r == CHOOSE x \in mine : \A y \in mine : x.seq <= y.seq
    IN  /\ running' = IF mine = {} THEN running ELSE running \ {r}
        /\ finished' = IF mine = {} THEN finished ELSE Append(finished, r.seq)
        /\ inbox' = inbox

\* the update being handled and the message the handler sends back
\* and the calls of get_current_prices the handler made on the way
HandledWith(u, kind, data, text, handler, msg, rows, price_requests) ==
    /\ update' = [user |-> u, kind |-> kind, data |-> data, text |-> text]
    /\ reply' = [handler |-> handler, msg |-> msg, rows |-> rows,
                 price_requests |-> price_requests]
    /\ Returned([user |-> u, kind |-> kind, data |-> data, text |-> text])

\* a handler that asks for no prices
Handled(u, kind, data, text, handler, msg, rows) ==
    HandledWith(u, kind, data, text, handler, msg, rows, <<>>)

\* ------------------------------------------------- read-only command bodies

\* share_command: the reply it ends with
share_msg(u) ==
    LET user == find_one(users, u)
    IN  IF IsNone(user) THEN "user_not_found"
        ELSE IF calls_of(calls, user._id) = <<>> THEN "no_transactions"
        ELSE IF get_current_prices({calls_of(calls, user._id)[Len(calls_of(calls, user._id))].crypto_symbol}, oracle).raised
             THEN "error"
        ELSE "share_link"

\* portfolio_command: the total it reports
portfolio_total(u) ==
    LET user == find_one(users, u)
        mine == calls_of(calls, user._id)
        symbols == distinct_symbols(mine)
        current_prices == IF symbols # {} THEN get_current_prices(symbols, oracle).prices
                          ELSE <<>>
    IN  total_pnl(mine, current_prices)

\* portfolio_command: the reply it ends with
portfolio_msg(u) ==
    LET user == find_one(users, u)
        mine == calls_of(calls, user._id)
    IN  IF IsNone(user) THEN "user_not_found"
        ELSE IF mine = <<>> /\ user.wallets = <<>> /\ user.contract_addresses = <<>>
             THEN "nothing_found"
        ELSE IF distinct_symbols(mine) # {}
                /\ get_current_prices(distinct_symbols(mine), oracle).raised
             THEN "error"
        ELSE "portfolio"

portfolio_rows(u) ==
    IF portfolio_msg(u) = "portfolio"
    THEN <<[username |-> "total", pnl |-> portfolio_total(u)]>>
    ELSE <<>>

\* leaderboard_command: the reply it ends with
leaderboard_msg ==
    LET crypto_symbols == distinct_symbols(calls)
    IN  IF crypto_symbols = {} THEN "no_transactions"
        ELSE IF get_current_prices(crypto_symbols, oracle).raised THEN "error"
        ELSE IF get_current_prices(crypto_symbols, oracle).prices = <<>> THEN "prices_failed"
        ELSE IF users = <<>> THEN "no_users"
        ELSE "leaderboard"

\* leaderboard_command: the rows it shows
leaderboard_rows ==
    IF leaderboard_msg = "leaderboard"
    THEN top_rows(sorted_desc(user_pnls(users, calls,
                    get_current_prices(distinct_symbols(calls), oracle).prices)))
    ELSE <<>>

\* share_command: its one call, for the symbol of the latest Call
share_requests(u) ==
    LET user == find_one(users, u)
        mine == calls_of(calls, user._id)
    IN  IF IsNone(user) \/ mine = <<>> THEN <<>>
        ELSE <<{mine[Len(mine)].crypto_symbol}>>

\* portfolio_command: its one call, for the distinct symbols of the user's
\* Calls, made when there are any
portfolio_requests(u) ==
    LET user == find_one(users, u)
        mine == calls_of(calls, user._id)
    IN  IF IsNone(user) \/ distinct_symbols(mine) = {} THEN <<>>
        ELSE <<distinct_symbols(mine)>>

\* a leaderboard that asks for the prices of each user's symbols in turn
leaderboard_requests_per_user ==
    LET asked == SelectSeq(users, LAMBDA doc : calls_of(calls, doc._id) # <<>>)
    IN  [i \in DOMAIN asked |-> distinct_symbols(calls_of(calls, asked[i]._id))]

\* leaderboard_command: its one call, for the distinct symbols of all Calls,
\* made before the loop over the users
leaderboard_requests ==
    IF distinct_symbols(calls) = {} THEN <<>> ELSE <<distinct_symbols(calls)>>

Ledger == <<users, calls>>
Sessions == <<conv_add_wallet, conv_buy_sell, user_data, session_inputs>>
Pricing == <<price_cache, requests, clock, upstream_fetches>>
Aside == <<oracle, callers, probe, Pricing>>

\* ---------------------------------------------------------------- handlers

StartCommand(u) ==
    /\ RouteOf(u, "command", "start") = "start_command"
    /\ Handled(u, "command", "start", <<>>, "start_command", "welcome", <<>>)
    /\ UNCHANGED <<Ledger, Sessions, Aside>>

HelpCommand(u) ==
    /\ RouteOf(u, "command", "help") = "help_command"
    /\ Handled(u, "command", "help", <<>>, "help_command", "help_menu", <<>>)
    /\ UNCHANGED <<Ledger, Sessions, Aside>>

ShareCommand(u) ==
    /\ RouteOf(u, "command", "share") = "share_command"
    /\ HandledWith(u, "command", "share", <<>>, "share_command", share_msg(u), <<>>,
                   share_requests(u))
    /\ UNCHANGED <<Ledger, Sessions, Aside>>

HelpMenuHandler(u, d) ==
    /\ RouteOf(u, "callback", d) = "help_menu_handler"
    /\ Handled(u, "callback", d, <<>>, "help_menu_handler",
               IF d = "back_to_main" THEN "welcome" ELSE d, <<>>)
    /\ UNCHANGED <<Ledger, Sessions, Aside>>

\* the menu calls addwallet_start and buy_sell_start as plain functions: their
\* return value is dropped and no conversation opens
StartMenuHandler(u, d) ==
    /\ RouteOf(u, "callback", d) = "start_menu_handler"
    /\ HandledWith(u, "callback", d, <<>>, "start_menu_handler",
               CASE d = "add_wallet" -> "enter_address"
                 [] d = "buy_sell" -> "select_type"
                 [] d = "portfolio" -> portfolio_msg(u)
                 [] d = "leaderboard" -> leaderboard_msg
                 [] OTHER -> "help_menu",
               CASE d = "portfolio" -> portfolio_rows(u)
                 [] d = "leaderboard" -> leaderboard_rows
                 [] OTHER -> <<>>,
               CASE d = "portfolio" -> portfolio_requests(u)
                 [] d = "leaderboard" -> leaderboard_requests
                 [] OTHER -> <<>>)
    /\ UNCHANGED <<Ledger, Sessions, Aside>>

PortfolioCommand(u) ==
    /\ RouteOf(u, "command", "portfolio") = "portfolio_command"
    /\ HandledWith(u, "command", "portfolio", <<>>, "portfolio_command",
                   portfolio_msg(u), portfolio_rows(u), portfolio_requests(u))
    /\ UNCHANGED <<Ledger, Sessions, Aside>>

LeaderboardCommand(u) ==
    /\ RouteOf(u, "command", "leaderboard") = "leaderboard_command"
    /\ HandledWith(u, "command", "leaderboard", <<>>, "leaderboard_command",
                   leaderboard_msg, leaderboard_rows, leaderboard_requests)
    /\ UNCHANGED <<Ledger, Sessions, Aside>>

AddwalletStart(u) ==
    /\ RouteOf(u, "command", "addwallet") = "addwallet_start"
    /\ conv_add_wallet' = [conv_add_wallet EXCEPT ![u] = ADD_WALLET]
    /\ Handled(u, "command", "addwallet", <<>>, "addwallet_start", "enter_address", <<>>)
    /\ UNCHANGED <<Ledger, conv_buy_sell, user_data, session_inputs, Aside>>

\* addwallet_receive, with the values uuid4()[:8] can take and the most
\* wallets a user of the model registers
AddwalletReceiveWith(u, t, ids, most) ==
    /\ RouteOf(u, "text", "") = "addwallet_receive"
    /\ LET wallet_address == Strip(t)
           got == get_or_create_user(users, u, UsernameOf(u))
       IN  IF ~validate_sol_address(wallet_address)
           THEN /\ Handled(u, "text", "", t, "addwallet_receive", "invalid_address", <<>>)
                /\ UNCHANGED <<users, conv_add_wallet>>
           ELSE /\ Len(got.user.wallets) < most
                /\ \E wallet_id \in ids :
                     users' = push_wallet(got.coll, u,
                                 [wallet_id |-> wallet_id,
                                  sol_wallet_address |-> wallet_address,
                                  sol_balance |-> Fin(0)])
                /\ conv_add_wallet' = [conv_add_wallet EXCEPT ![u] = END]
                /\ Handled(u, "text", "", t, "addwallet_receive", "wallet_added", <<>>)
    /\ UNCHANGED <<calls, conv_buy_sell, user_data, session_inputs, Aside>>

AddwalletReceive(u, t) == AddwalletReceiveWith(u, t, Uuids, MaxWallets)

AddwalletCancel(u) ==
    /\ RouteOf(u, "command", "cancel") = "addwallet_cancel"
    /\ conv_add_wallet' = [conv_add_wallet EXCEPT ![u] = END]
    /\ Handled(u, "command", "cancel", <<>>, "addwallet_cancel", "wallet_canceled", <<>>)
    /\ UNCHANGED <<Ledger, conv_buy_sell, user_data, session_inputs, Aside>>

BuySellStartIn(chat_id, u, c) ==
    /\ RouteOf(chat_id, "command", c) = "buy_sell_start"
    /\ conv_buy_sell' = [conv_buy_sell EXCEPT ![chat_id] = TRANSACTION_GET_ACTION]
    /\ session_inputs' = [session_inputs EXCEPT ![chat_id] = NoInputs]
    /\ Handled(u, "command", c, <<>>, "buy_sell_start", "select_type", <<>>)
    /\ UNCHANGED <<Ledger, conv_add_wallet, user_data, Aside>>

BuySellStart(u, c) == BuySellStartIn(u, u, c)

\* a BUY/SELL button pressed with no conversation open is an entry point: it
\* opens the conversation at the symbol step
TransactionSelectActionIn(chat_id, u, d) ==
    /\ RouteOf(chat_id, "callback", d) = "transaction_select_action"
    /\ IF d \in {"BUY", "SELL"}
       THEN /\ user_data' = [user_data EXCEPT ![u].transaction_action = d]
            /\ session_inputs' = [session_inputs EXCEPT ![chat_id] =
                  [(IF conv_buy_sell[chat_id] = END THEN NoInputs ELSE @)
                      EXCEPT !.transaction_action = d]]
            /\ conv_buy_sell' = [conv_buy_sell EXCEPT ![chat_id] = TRANSACTION_GET_SYMBOL]
            /\ Handled(u, "callback", d, <<>>, "transaction_select_action", "enter_symbol", <<>>)
       ELSE IF d = "back_to_main"
       THEN /\ conv_buy_sell' = [conv_buy_sell EXCEPT ![chat_id] = END]
            /\ Handled(u, "callback", d, <<>>, "transaction_select_action", "welcome", <<>>)
            /\ UNCHANGED <<user_data, session_inputs>>
       ELSE /\ conv_buy_sell' = [conv_buy_sell EXCEPT ![chat_id] = TRANSACTION_GET_ACTION]
            /\ Handled(u, "callback", d, <<>>, "transaction_select_action", "select_valid_type", <<>>)
            /\ UNCHANGED <<user_data, session_inputs>>
    /\ UNCHANGED <<Ledger, conv_add_wallet, Aside>>

TransactionSelectAction(u, d) == TransactionSelectActionIn(u, u, d)

TransactionGetSymbolIn(chat_id, u, t) ==
    /\ RouteOf(chat_id, "text", "") = "transaction_get_symbol"
    /\ LET crypto_symbol == Upper(Strip(t))
       IN  IF ~MatchSymbol(crypto_symbol)
           THEN /\ Handled(u, "text", "", t, "transaction_get_symbol", "invalid_symbol", <<>>)
                /\ UNCHANGED <<user_data, session_inputs, conv_buy_sell>>
           ELSE /\ user_data' = [user_data EXCEPT ![u].crypto_symbol = crypto_symbol]
                /\ session_inputs' = [session_inputs EXCEPT ![chat_id].crypto_symbol = crypto_symbol]
                /\ conv_buy_sell' = [conv_buy_sell EXCEPT ![chat_id] = TRANSACTION_GET_UNITS]
                /\ Handled(u, "text", "", t, "transaction_get_symbol", "enter_units", <<>>)
    /\ UNCHANGED <<Ledger, conv_add_wallet, Aside>>

TransactionGetSymbol(u, t) == TransactionGetSymbolIn(u, u, t)

\* transaction_get_units without its look at the user's wallets
TransactionGetUnits_nocheck(u, t) ==
    /\ RouteOf(u, "text", "") = "transaction_get_units"
    /\ LET number_of_units == ParseFloat(Strip(t))
       IN  IF number_of_units = ValueError \/ LeqZero(number_of_units)
           THEN /\ Handled(u, "text", "", t, "transaction_get_units", "invalid_units", <<>>)
                /\ UNCHANGED <<user_data, session_inputs, conv_buy_sell>>
           ELSE /\ user_data' = [user_data EXCEPT ![u].number_of_units = number_of_units]
                /\ conv_buy_sell' = [conv_buy_sell EXCEPT ![u] = TRANSACTION_SELECT_WALLET]
                /\ session_inputs' = [session_inputs EXCEPT ![u].number_of_units = number_of_units]
                /\ Handled(u, "text", "", t, "transaction_get_units", "select_wallet", <<>>)
    /\ UNCHANGED <<Ledger, conv_add_wallet, Aside>>

TransactionGetUnitsIn(chat_id, u, t) ==
    /\ RouteOf(chat_id, "text", "") = "transaction_get_units"
    /\ LET number_of_units == ParseFloat(Strip(t))
           user == find_one(users, u)
       IN  IF number_of_units = ValueError \/ LeqZero(number_of_units)
           THEN /\ Handled(u, "text", "", t, "transaction_get_units", "invalid_units", <<>>)
                /\ UNCHANGED <<user_data, session_inputs, conv_buy_sell>>
           ELSE /\ user_data' = [user_data EXCEPT ![u].number_of_units = number_of_units]
                /\ IF IsNone(user) \/ user.wallets = <<>>
                   THEN /\ conv_buy_sell' = [conv_buy_sell EXCEPT ![chat_id] = END]
                        /\ session_inputs' = [session_inputs EXCEPT ![chat_id] = NoInputs]
                        /\ Handled(u, "text", "", t, "transaction_get_units", "no_wallets", <<>>)
                   ELSE /\ conv_buy_sell' = [conv_buy_sell EXCEPT ![chat_id] = TRANSACTION_SELECT_WALLET]
                        /\ session_inputs' = [session_inputs EXCEPT ![chat_id].number_of_units = number_of_units]
                        /\ Handled(u, "text", "", t, "transaction_get_units", "select_wallet", <<>>)
    /\ UNCHANGED <<Ledger, conv_add_wallet, Aside>>

TransactionGetUnits(u, t) == TransactionGetUnitsIn(u, u, t)

\* a commit step that takes the pressed button for a wallet of the user
TransactionSelectWalletIn_nolookup(chat_id, u, d) ==
    /\ RouteOf(chat_id, "callback", d) = "transaction_select_wallet"
    /\ user_data' = [user_data EXCEPT ![u].selected_wallet_id = d]
    /\ conv_buy_sell' = [conv_buy_sell EXCEPT ![chat_id] = END]
    /\ session_inputs' = [session_inputs EXCEPT ![chat_id] = NoInputs]
    /\ LET user == find_one(users, u)
           ud == user_data[u]
           found == TRUE
           wallet == user.wallets[FirstWallet(user.wallets, d)]
       IN  IF IsNone(user)
           THEN /\ Handled(u, "callback", d, <<>>, "transaction_select_wallet", "error_logging", <<>>)
                /\ UNCHANGED Ledger
           ELSE IF ~found
           THEN /\ Handled(u, "callback", d, <<>>, "transaction_select_wallet", "wallet_not_found", <<>>)
                /\ UNCHANGED Ledger
           ELSE IF \/ ud.crypto_symbol = <<>>
                   \/ ud.transaction_action = "unset"
                   \/ ud.number_of_units = NoUnits
           THEN /\ Handled(u, "callback", d, <<>>, "transaction_select_wallet", "error_logging", <<>>)
                /\ UNCHANGED Ledger
           ELSE /\ Len(calls) < MaxCalls
                /\ calls' = log_call(calls, user._id, ud.crypto_symbol, ud.transaction_action,
                                     ud.number_of_units, d, oracle)
                /\ users' = set_balance(users, u, d, get_sol_balance(wallet.sol_wallet_address))
                /\ HandledWith(u, "callback", d, <<>>, "transaction_select_wallet",
                               IF get_current_prices({ud.crypto_symbol}, oracle).raised
                               THEN "error_logging" ELSE "transaction_logged", <<>>,
                               <<{ud.crypto_symbol}>>)
    /\ UNCHANGED <<conv_add_wallet, Aside>>

\* the commit step.  Whatever happens the conversation ends; the Call and the
\* balance are written before the price of the confirmation is fetched
TransactionSelectWalletIn(chat_id, u, d) ==
    /\ RouteOf(chat_id, "callback", d) = "transaction_select_wallet"
    /\ user_data' = [user_data EXCEPT ![u].selected_wallet_id = d]
    /\ conv_buy_sell' = [conv_buy_sell EXCEPT ![chat_id] = END]
    /\ session_inputs' = [session_inputs EXCEPT ![chat_id] = NoInputs]
    /\ LET user == find_one(users, u)
           ud == user_data[u]
           found == \E j \in DOMAIN user.wallets : user.wallets[j].wallet_id = d
           wallet == user.wallets[FirstWallet(user.wallets, d)]
       IN  IF IsNone(user)
           THEN /\ Handled(u, "callback", d, <<>>, "transaction_select_wallet", "error_logging", <<>>)
                /\ UNCHANGED Ledger
           ELSE IF ~found
           THEN /\ Handled(u, "callback", d, <<>>, "transaction_select_wallet", "wallet_not_found", <<>>)
                /\ UNCHANGED Ledger
           ELSE IF \/ ud.crypto_symbol = <<>>
                   \/ ud.transaction_action = "unset"
                   \/ ud.number_of_units = NoUnits
           THEN /\ Handled(u, "callback", d, <<>>, "transaction_select_wallet", "error_logging", <<>>)
                /\ UNCHANGED Ledger
           ELSE /\ Len(calls) < MaxCalls
                /\ calls' = log_call(calls, user._id, ud.crypto_symbol, ud.transaction_action,
                                     ud.number_of_units, d, oracle)
                /\ users' = set_balance(users, u, d, get_sol_balance(wallet.sol_wallet_address))
                /\ HandledWith(u, "callback", d, <<>>, "transaction_select_wallet",
                               IF get_current_prices({ud.crypto_symbol}, oracle).raised
                               THEN "error_logging" ELSE "transaction_logged", <<>>,
                               <<{ud.crypto_symbol}>>)
    /\ UNCHANGED <<conv_add_wallet, Aside>>

TransactionSelectWallet(u, d) == TransactionSelectWalletIn(u, u, d)

BuySellCancelIn(chat_id, u) ==
    /\ RouteOf(chat_id, "command", "cancel") = "buy_sell_cancel"
    /\ conv_buy_sell' = [conv_buy_sell EXCEPT ![chat_id] = END]
    /\ session_inputs' = [session_inputs EXCEPT ![chat_id] = NoInputs]
    /\ Handled(u, "command", "cancel", <<>>, "buy_sell_cancel", "transaction_canceled", <<>>)
    /\ UNCHANGED <<Ledger, conv_add_wallet, user_data, Aside>>

BuySellCancel(u) == BuySellCancelIn(u, u)

HandleContractAddress_nocheck(u, t) ==
    /\ RouteOf(u, "text", "") = "handle_contract_address"
    /\ validate_sol_address(Strip(t))
    /\ users' = push_contract(get_or_create_user(users, u, UsernameOf(u)).coll, u,
                    [contract_id |-> "c1", contract_address |-> Strip(t),
                     contract_balance |-> Fin(0)])
    /\ Handled(u, "text", "", t, "handle_contract_address", "contract_added", <<>>)
    /\ UNCHANGED <<calls, Sessions, Aside>>

HandleContractAddress(u, t) ==
    /\ RouteOf(u, "text", "") = "handle_contract_address"
    /\ LET message_text == Strip(t)
           got == get_or_create_user(users, u, UsernameOf(u))
           existing == \E j \in DOMAIN got.user.contract_addresses :
                          got.user.contract_addresses[j].contract_address = message_text
       IN  IF ~validate_sol_address(message_text)
           THEN /\ Handled(u, "text", "", t, "handle_contract_address", "ignored", <<>>)
                /\ UNCHANGED users
           ELSE IF existing
           THEN /\ Handled(u, "text", "", t, "handle_contract_address", "already_added", <<>>)
                /\ users' = got.coll
           ELSE /\ \E contract_id \in ContractUuids :
                     users' = push_contract(got.coll, u,
                                 [contract_id |-> contract_id,
                                  contract_address |-> message_text,
                                  contract_balance |-> Fin(0)])
                /\ Handled(u, "text", "", t, "handle_contract_address", "contract_added", <<>>)
    /\ UNCHANGED <<calls, Sessions, Aside>>

\* an update no handler accepts is dropped
Unhandled(u, kind, d) ==
    /\ RouteOf(u, kind, d) = "none"
    /\ Handled(u, kind, d, <<>>, "none", "none", <<>>)
    /\ UNCHANGED <<Ledger, Sessions, Aside>>

Dispatch ==
    \E u \in Traders :
        \/ StartCommand(u)
        \/ HelpCommand(u)
        \/ ShareCommand(u)
        \/ \E d \in HelpInputs : HelpMenuHandler(u, d)
        \/ \E d \in StartInputs : StartMenuHandler(u, d)
        \/ PortfolioCommand(u)
        \/ LeaderboardCommand(u)
        \/ AddwalletStart(u)
        \/ \E t \in AddressTexts : AddwalletReceive(u, t)
        \/ AddwalletCancel(u)
        \/ \E c \in {"buy", "sell"} : BuySellStart(u, c)
        \/ \E d \in ActionChoices : TransactionSelectAction(u, d)
        \/ \E t \in SymbolTexts : TransactionGetSymbol(u, t)
        \/ \E t \in UnitsTexts : TransactionGetUnits(u, t)
        \/ \E d \in WalletInputs : TransactionSelectWallet(u, d)
        \/ BuySellCancel(u)
        \/ \E d \in OtherCommands : Unhandled(u, "command", d)
        \/ \E d \in OtherCallbacks : Unhandled(u, "callback", d)

Capture == \E u \in TelegramIds : \E t \in ContractTexts : HandleContractAddress(u, t)

Next == Dispatch \/ Capture

Spec == Init /\ [][Next]_vars

\* ---------------------------------------- get_or_create_user, line by line
\* Callers that share users_collection (handlers of several bot processes):
\* each database call is atomic, and the calls of different callers interleave.

\* a handler calls get_or_create_user(telegram_id, username)
GocuCall(p, t) ==
    /\ callers[p].pc = "idle"
    /\ callers' = [callers EXCEPT ![p] = [pc |-> "find", telegram_id |-> t,
                                          via |-> "none", ret |-> NoneDoc]]
    /\ UNCHANGED <<Ledger, Sessions, Dispatcher, oracle, update, reply, probe, Pricing>>

\* user = users_collection.find_one(...); if user: return user
GocuFind(p) ==
    /\ callers[p].pc = "find"
    /\ LET user == find_one(users, callers[p].telegram_id)
       IN  callers' = [callers EXCEPT ![p] =
              IF ~IsNone(user)
              THEN [@ EXCEPT !.pc = "done", !.via = "found", !.ret = user]
              ELSE [@ EXCEPT !.pc = "insert"]]
    /\ UNCHANGED <<Ledger, Sessions, Dispatcher, oracle, update, reply, probe, Pricing>>

\* users_collection.insert_one(user_data): DuplicateKeyError when another
\* caller inserted the telegram_id first
GocuInsert(p) ==
    /\ callers[p].pc = "insert"
    /\ LET t == callers[p].telegram_id
           ins == insert_one(users, new_user_data(users, t, UsernameOf(t)))
       IN  /\ users' = ins.coll
           /\ callers' = [callers EXCEPT ![p].pc =
                            IF ins.raised THEN "except" ELSE "refind"]
    /\ UNCHANGED <<calls, Sessions, Dispatcher, oracle, update, reply, probe, Pricing>>

\* return users_collection.find_one(...), after the insert
GocuRefind(p) ==
    /\ callers[p].pc = "refind"
    /\ callers' = [callers EXCEPT ![p] =
          [@ EXCEPT !.pc = "done", !.via = "created",
                    !.ret = find_one(users, callers[p].telegram_id)]]
    /\ UNCHANGED <<Ledger, Sessions, Dispatcher, oracle, update, reply, probe, Pricing>>

on_duplicate_key_none(coll, telegram_id) == NoneDoc

\* except DuplicateKeyError: return users_collection.find_one(...)
on_duplicate_key(coll, telegram_id) == find_one(coll, telegram_id)

GocuExcept(p) ==
    /\ callers[p].pc = "except"
    /\ callers' = [callers EXCEPT ![p] =
          [@ EXCEPT !.pc = "done", !.via = "duplicate",
                    !.ret = on_duplicate_key(users, callers[p].telegram_id)]]
    /\ UNCHANGED <<Ledger, Sessions, Dispatcher, oracle, update, reply, probe, Pricing>>

\* the handler goes on with the record and, later, calls again
GocuReturn(p) ==
    /\ callers[p].pc = "done"
    /\ callers' = [callers EXCEPT ![p] = IdleCaller]
    /\ UNCHANGED <<Ledger, Sessions, Dispatcher, oracle, update, reply, probe, Pricing>>

RaceNext ==
    \E p \in Callers :
        \/ \E t \in TelegramIds : GocuCall(p, t)
        \/ GocuFind(p)
        \/ GocuInsert(p)
        \/ GocuRefind(p)
        \/ GocuExcept(p)
        \/ GocuReturn(p)

SpecRace == Init /\ [][RaceNext]_vars

\* ------------------------------------------------ calculate_profit, applied

ProbeActions == {"BUY", "SELL"}
ProbeSymbols == {T_SOL, T_BTC}
ProbePricesAtCall == {0, 50, 100}
ProbeUnits == {Fin(10), Fin(25), Fin(30)}
ProbeQuotes == {0, 80, 120}

ProbeCalls ==
    [user_id : {1}, crypto_symbol : ProbeSymbols, action : ProbeActions,
     number_of_units : ProbeUnits, wallet_id : {"w1"}, price_at_call : ProbePricesAtCall]

\* the price mappings: any subset of the symbols, each with a quote
ProbeMappings ==
    UNION {[S -> ProbeQuotes] : S \in SUBSET ProbeSymbols}

ApplyCalculateProfit ==
    \E call \in ProbeCalls : \E current_prices \in ProbeMappings :
        /\ probe' = [fn |-> "calculate_profit", call |-> <<call>>,
                     prices |-> current_prices,
                     out |-> calculate_profit(call, current_prices)]
        /\ UNCHANGED <<Ledger, Sessions, Dispatcher, oracle, update, reply, callers, Pricing>>

SpecPnL == Init /\ [][ApplyCalculateProfit]_vars

\* ------------------------------------- get_current_prices behind price_cache
\* The calls of get_current_prices that handlers have in flight, the wrapper
\* of @cached(cache=price_cache) step by step, and the passing of time.

\* TTLCache(maxsize=100, ttl=60)
TTL == 60

\* the last second of the model's clock
MaxClock == 120

\* the symbol lists the handlers pass
RequestSymbols == {{T_SOL}, {T_BTC}, {T_SOL, T_BTC}}

\* price_cache[k] for an entry that has not expired
FreshEntries(cache, crypto_symbols, now) ==
    {e \in cache : e.key = crypto_symbols /\ now - e.at < TTL}

\* a handler reaches its call get_current_prices(crypto_symbols)
PriceCall(p, crypto_symbols) ==
    /\ requests[p].pc = "idle"
    /\ requests' = [requests EXCEPT ![p] =
          [pc |-> "lookup", crypto_symbols |-> crypto_symbols, at |-> clock,
           prices |-> <<>>]]
    /\ UNCHANGED <<Ledger, Sessions, Dispatcher, oracle, update, reply, callers, probe,
                   price_cache, clock, upstream_fetches>>

\* the wrapper: k = hashkey(crypto_symbols); return price_cache[k] when the
\* key is there, else run the function, store its value and return it.  The
\* lookup hashes the key: with a list in it the TypeError leaves the wrapper
\* before the cache is read and before the function is run.
PriceLookup(p) ==
    /\ requests[p].pc = "lookup"
    /\ LET crypto_symbols == requests[p].crypto_symbols
           out == get_current_prices(crypto_symbols, oracle)
           hits == FreshEntries(price_cache, crypto_symbols, clock)
       IN  IF out.raised
           THEN /\ requests' = [requests EXCEPT ![p].pc = "raised"]
                /\ UNCHANGED <<price_cache, upstream_fetches>>
           ELSE IF hits # {}
           THEN /\ requests' = [requests EXCEPT ![p].pc = "returned",
                                                ![p].prices = (CHOOSE e \in hits : TRUE).value]
                /\ UNCHANGED <<price_cache, upstream_fetches>>
           ELSE /\ requests' = [requests EXCEPT ![p].pc = "returned",
                                                ![p].prices = out.prices]
                /\ price_cache' = {e \in price_cache : e.key # crypto_symbols}
                                  \cup {[key |-> crypto_symbols, value |-> out.prices,
                                         at |-> clock]}
                /\ upstream_fetches' = upstream_fetches
                                       \cup {[crypto_symbols |-> crypto_symbols, at |-> clock]}
    /\ UNCHANGED <<Ledger, Sessions, Dispatcher, oracle, update, reply, callers, probe, clock>>

\* the handler's except branch (or its next line) has run: the call is over
PriceDone(p) ==
    /\ requests[p].pc \in {"raised", "returned"}
    /\ requests' = [requests EXCEPT ![p] = IdleRequest]
    /\ UNCHANGED <<Ledger, Sessions, Dispatcher, oracle, update, reply, callers, probe,
                   price_cache, clock, upstream_fetches>>

\* half a ttl goes by
Tick ==
    /\ clock + (TTL \div 2) <= MaxClock
    /\ clock' = clock + (TTL \div 2)
    /\ UNCHANGED <<Ledger, Sessions, Dispatcher, oracle, update, reply, callers, probe,
                   price_cache, requests, upstream_fetches>>

CacheNext ==
    \/ \E p \in Callers :
          \/ \E crypto_symbols \in RequestSymbols : PriceCall(p, crypto_symbols)
          \/ PriceLookup(p)
          \/ PriceDone(p)
    \/ Tick

SpecCache == Init /\ [][CacheNext]_vars

\* ------------------------------------ /portfolio and /leaderboard on ledgers
\* The two read-only commands asked of ledgers that earlier trade sessions
\* have left: two users with a wallet each, and Calls in SOL and BTC.

\* the most Calls a ledger has
MaxBoardCalls == 2

BoardUsers ==
    <<[_id |-> 1, telegram_id |-> 1, username |-> UsernameOf(1),
       wallets |-> <<[wallet_id |-> "w1", sol_wallet_address |-> ADDR_B,
                      sol_balance |-> Fin(0)]>>,
       contract_addresses |-> <<>>],
      [_id |-> 2, telegram_id |-> 2, username |-> UsernameOf(2),
       wallets |-> <<[wallet_id |-> "w1", sol_wallet_address |-> ADDR_A,
                      sol_balance |-> Fin(0)]>>,
       contract_addresses |-> <<>>]>>

\* what a trade session hands to log_call
BoardTrades ==
    [user_id : {1, 2}, crypto_symbol : {T_SOL, T_BTC}, action : {"BUY", "SELL"}]

\* the Calls that log_call has written for a sequence of trades
RECURSIVE LoggedCalls(_, _)
LoggedCalls(trades, quotes) ==
    IF trades = <<>> THEN <<>>
    ELSE LET t == trades[Len(trades)]
         IN  log_call(LoggedCalls(SubSeq(trades, 1, Len(trades) - 1), quotes),
                      t.user_id, t.crypto_symbol, t.action, Fin(25), "w1", quotes)

BoardLedgers(quotes) ==
    {LoggedCalls(trades, quotes) :
        trades \in UNION {[1..n -> BoardTrades] : n \in 0..MaxBoardCalls}}

InitBoard ==
    /\ users = BoardUsers
    /\ oracle \in OracleStates
    /\ calls \in BoardLedgers(oracle)
    /\ conv_add_wallet = [t \in TelegramIds |-> END]
    /\ conv_buy_sell = [t \in TelegramIds |-> END]
    /\ user_data = [t \in TelegramIds |-> NoUserData]
    /\ session_inputs = [t \in TelegramIds |-> NoInputs]
    /\ update = NoUpdate
    /\ reply = NoReply
    /\ callers = NoCallers
    /\ probe = NoProbe
    /\ price_cache = {}
    /\ requests = NoRequests
    /\ clock = 0
    /\ upstream_fetches = {}
    /\ inbox = <<>>
    /\ running = {}
    /\ finished = <<>>

BoardNext ==
    \E u \in TelegramIds :
        \/ PortfolioCommand(u)
        \/ LeaderboardCommand(u)

SpecBoard == InitBoard /\ [][BoardNext]_vars

\* ------------------------------------------- the add-wallet conversation alone
\* Both users registering wallets, with two values for the generated id.

\* the most wallets a user registers
MaxRegistered == 2

WalletIds == {"w1", "w2"}

WalletsNext ==
    \E u \in TelegramIds :
        \/ AddwalletStart(u)
        \/ \E t \in AddressTexts : AddwalletReceiveWith(u, t, WalletIds, MaxRegistered)
        \/ AddwalletCancel(u)

SpecWallets == Init /\ [][WalletsNext]_vars

\* ------------------------------------------------ the dispatcher, step by step
\* run_polling: updates arrive in the application's queue; the dispatcher
\* takes the oldest, picks its handler by the state the conversations are in,
\* and runs the handler, which returns with the new state recorded.

\* the most updates that arrive
MaxArrivals == 4

\* ApplicationBuilder().token(...).build(): concurrent_updates is not asked
\* for, and every handler is registered blocking
concurrent_updates_on == TRUE

concurrent_updates == FALSE

\* a polling loop that gives up after a handler has answered with an error
DispatcherRunning_until_error == reply.msg \notin {"error", "error_logging"}

\* application.run_polling() keeps taking updates whatever the handlers did
DispatcherRunning == TRUE

\* what user 1 sends
QueueUpdates ==
    {[user |-> 1, kind |-> "command", data |-> c, text |-> <<>>] :
        c \in {"addwallet", "buy", "cancel", "portfolio"}}
    \cup {[user |-> 1, kind |-> "callback", data |-> "BUY", text |-> <<>>],
          [user |-> 1, kind |-> "text", data |-> "", text |-> T_SOL]}

\* the number of updates that have arrived
Arrivals == Len(inbox) + Cardinality(running) + Len(finished)

\* the ledger a committed trade of user 1 has left
InitQueue ==
    /\ users = BoardUsers
    /\ oracle \in OracleStates
    /\ calls = LoggedCalls(<<[user_id |-> 1, crypto_symbol |-> T_SOL, action |-> "BUY"]>>,
                           oracle)
    /\ conv_add_wallet = [t \in TelegramIds |-> END]
    /\ conv_buy_sell = [t \in TelegramIds |-> END]
    /\ user_data = [t \in TelegramIds |-> NoUserData]
    /\ session_inputs = [t \in TelegramIds |-> NoInputs]
    /\ update = NoUpdate
    /\ reply = NoReply
    /\ callers = NoCallers
    /\ probe = NoProbe
    /\ price_cache = {}
    /\ requests = NoRequests
    /\ clock = 0
    /\ upstream_fetches = {}
    /\ inbox = <<>>
    /\ running = {}
    /\ finished = <<>>

\* an update arrives and waits in the queue
Arrive(upd) ==
    /\ Arrivals < MaxArrivals
    /\ inbox' = Append(inbox, [seq |-> Arrivals + 1, update |-> upd])
    /\ UNCHANGED <<Ledger, Sessions, Aside, update, reply, running, finished>>

\* the dispatcher takes the oldest update: without concurrent_updates only
\* when no handler is running.  The handler is the first one of main() that
\* accepts the update in the state the conversations are in now.
StartHandler ==
    /\ inbox # <<>>
    /\ DispatcherRunning
    /\ concurrent_updates \/ running = {}
    /\ LET upd == Head(inbox).update
       IN  running' = running \cup
              {[seq |-> Head(inbox).seq, update |-> upd,
                handler |-> RouteOf(upd.user, upd.kind, upd.data)]}
    /\ inbox' = Tail(inbox)
    /\ UNCHANGED <<Ledger, Sessions, Aside, update, reply, finished>>

\* the handler of a running update runs and returns
FinishHandler ==
    \E r \in running :
        LET u == r.update.user
            d == r.update.data
            t == r.update.text
        IN  \/ r.handler = "addwallet_start" /\ AddwalletStart(u)
            \/ r.handler = "addwallet_receive" /\ AddwalletReceive(u, t)
            \/ r.handler = "addwallet_cancel" /\ AddwalletCancel(u)
            \/ r.handler = "buy_sell_start" /\ BuySellStart(u, d)
            \/ r.handler = "transaction_select_action" /\ TransactionSelectAction(u, d)
            \/ r.handler = "transaction_get_symbol" /\ TransactionGetSymbol(u, t)
            \/ r.handler = "transaction_get_units" /\ TransactionGetUnits(u, t)
            \/ r.handler = "buy_sell_cancel" /\ BuySellCancel(u)
            \/ r.handler = "portfolio_command" /\ PortfolioCommand(u)
            \/ r.handler = "handle_contract_address" /\ HandleContractAddress(u, t)
            \/ r.handler = "none" /\ Unhandled(u, r.update.kind, d)

QueueNext ==
    \/ \E upd \in QueueUpdates : Arrive(upd)
    \/ StartHandler
    \/ FinishHandler

SpecQueue == InitQueue /\ [][QueueNext]_vars

\* the dispatcher does not idle while an update waits or a handler is running
SpecQueueFair == SpecQueue /\ WF_vars(StartHandler) /\ WF_vars(FinishHandler)

\* ------------------------------------------- one user writing in two chats
\* context.user_data belongs to the user whatever the chat, while the state of
\* buy_sell_conv is kept per (chat id, user id): user 1 talks to the bot in
\* the private chat and in a group chat.

\* the ids of the group chats (the ids of group chats are negative)
GroupChats == {-100}

ChatIds == TelegramIds \cup GroupChats

\* the chats user 1 writes in
ChatsOfTrader == {1} \cup GroupChats

InitChats ==
    /\ users = BoardUsers
    /\ calls = <<>>
    /\ conv_add_wallet = [c \in ChatIds |-> END]
    /\ conv_buy_sell = [c \in ChatIds |-> END]
    /\ user_data = [t \in TelegramIds |-> NoUserData]
    /\ session_inputs = [c \in ChatIds |-> NoInputs]
    /\ oracle \in OracleStates
    /\ update = NoUpdate
    /\ reply = NoReply
    /\ callers = NoCallers
    /\ probe = NoProbe
    /\ price_cache = {}
    /\ requests = NoRequests
    /\ clock = 0
    /\ upstream_fetches = {}
    /\ inbox = <<>>
    /\ running = {}
    /\ finished = <<>>

ChatsNext ==
    \E chat_id \in ChatsOfTrader :
        \/ \E c \in {"buy", "sell"} : BuySellStartIn(chat_id, 1, c)
        \/ \E d \in ActionChoices : TransactionSelectActionIn(chat_id, 1, d)
        \/ \E t \in SymbolTexts : TransactionGetSymbolIn(chat_id, 1, t)
        \/ \E t \in UnitsTexts : TransactionGetUnitsIn(chat_id, 1, t)
        \/ \E d \in WalletInputs : TransactionSelectWalletIn(chat_id, 1, d)
        \/ BuySellCancelIn(chat_id, 1)

SpecChats == InitChats /\ [][ChatsNext]_vars

\* ================================================================== claims

\* the update just handled came from u and went to handler h
By(u, h) == update.user = u /\ reply.handler = h

\* d is the wallet_id of one of u's wallets
HasWallet(u, d) ==
    \E j \in DOMAIN find_one(users, u).wallets : find_one(users, u).wallets[j].wallet_id = d

UniqueTelegramIds(coll) ==
    \A i, j \in DOMAIN coll : coll[i].telegram_id = coll[j].telegram_id => i = j

\* C1: a complete trade-entry sequence (action a, symbol s, units u accepted
\* in turn, then the selection of a wallet W of the user) persists exactly one
\* new Call, and that Call carries a, s, u, W and the id of the user's record.
C1_TradeSequenceCommitsOneCall ==
    [][\A u \in Traders :
        /\ (By(u, "transaction_select_action")' /\ reply'.msg = "enter_symbol")
              => session_inputs'[u].transaction_action = update'.data
        /\ (By(u, "transaction_get_symbol")' /\ reply'.msg = "enter_units")
              => session_inputs'[u].crypto_symbol = Upper(Strip(update'.text))
        /\ (By(u, "transaction_get_units")' /\ reply'.msg = "select_wallet")
              => session_inputs'[u].number_of_units = ParseFloat(Strip(update'.text))
        /\ (By(u, "transaction_select_wallet")' /\ HasWallet(u, update'.data))
              => /\ session_inputs[u].transaction_action \in ActionChoices
                 /\ MatchSymbol(session_inputs[u].crypto_symbol)
                 /\ session_inputs[u].number_of_units # NoUnits
                 /\ Len(calls') = Len(calls) + 1
                 /\ SubSeq(calls', 1, Len(calls)) = calls
                 /\ calls'[Len(calls')].user_id = find_one(users, u)._id
                 /\ calls'[Len(calls')].action = session_inputs[u].transaction_action
                 /\ calls'[Len(calls')].crypto_symbol = session_inputs[u].crypto_symbol
                 /\ calls'[Len(calls')].number_of_units = session_inputs[u].number_of_units
                 /\ calls'[Len(calls')].wallet_id = update'.data
        /\ Len(calls') <= Len(calls) + 1
      ]_vars

\* the sequence BUY, "SOL", "2.5", select(w1) has just been committed
C1_Witness ==
    /\ By(1, "transaction_select_wallet")
    /\ update.data = "w1"
    /\ Len(calls) = 1
    /\ calls[1].action = "BUY"
    /\ calls[1].crypto_symbol = T_SOL
    /\ calls[1].number_of_units = Fin(25)
    /\ calls[1].wallet_id = "w1"
    /\ calls[1].user_id = find_one(users, 1)._id

\* a units text that is no number, or a number not greater than 0
RejectableUnits(t) ==
    \/ ParseFloat(Strip(t)) = ValueError
    \/ ParseFloat(Strip(t)).k = "-inf"
    \/ ParseFloat(Strip(t)).k = "fin" /\ ParseFloat(Strip(t)).v <= 0

FinitePositive(x) == x.k = "fin" /\ x.v > 0

\* C3: the units accepted by AWAITING_UNITS, and so the units of every
\* persisted Call, are a finite number greater than 0.
C3_UnitsFinitePositive ==
    /\ \A i \in DOMAIN calls : FinitePositive(calls[i].number_of_units)
    /\ \A u \in Traders :
          user_data[u].number_of_units # NoUnits
             => FinitePositive(user_data[u].number_of_units)

\* C4: a cancel received while the trade-entry session is open ends that
\* session and persists no Call.
C4_CancelEndsTradeSession ==
    [][\A u \in Traders :
        (/\ conv_buy_sell[u] # END
         /\ update'.user = u
         /\ update'.kind = "command"
         /\ update'.data = "cancel")
        => conv_buy_sell'[u] = END /\ calls' = calls
      ]_vars

\* C5: the price_at_call of a Call is the price the quote provider gives for
\* the Call's symbol when the Call is committed.
C5_PriceAtCallIsCurrentPrice ==
    [][(Len(calls') = Len(calls) + 1
        /\ calls'[Len(calls')].crypto_symbol \in DOMAIN oracle)
       => calls'[Len(calls')].price_at_call = oracle[calls'[Len(calls')].crypto_symbol]
      ]_vars

\* C6: no two user records share a telegram_id, and get_or_create_user called
\* twice in a row for one telegram_id returns the same record and creates
\* nothing the second time.
C6_GetOrCreateIdempotent ==
    /\ UniqueTelegramIds(users)
    /\ \A t \in TelegramIds :
          LET first == get_or_create_user(users, t, UsernameOf(t))
              second == get_or_create_user(first.coll, t, UsernameOf(t))
          IN  /\ ~IsNone(first.user)
              /\ first.user.telegram_id = t
              /\ second.user._id = first.user._id
              /\ second.coll = first.coll
              /\ UniqueTelegramIds(first.coll)
              /\ find_one(users, t) # NoneDoc => first.user = find_one(users, t)

\* both users have been created, one handler after the other
C6_Witness ==
    /\ Len(users) = 2
    /\ users[1].telegram_id = 2
    /\ users[2].telegram_id = 1
    /\ reply.handler = "handle_contract_address"

\* C7: when first-contact calls of get_or_create_user for one telegram_id
\* race, one record is created, every caller gets that record, none gets None.
C7_RaceCreatesOneUser ==
    /\ UniqueTelegramIds(users)
    /\ \A p \in Callers :
          callers[p].pc = "done"
             => /\ ~IsNone(callers[p].ret)
                /\ callers[p].ret.telegram_id = callers[p].telegram_id
                /\ callers[p].ret = find_one(users, callers[p].telegram_id)
    /\ \A p, q \in Callers :
          (/\ callers[p].pc = "done"
           /\ callers[q].pc = "done"
           /\ callers[p].telegram_id = callers[q].telegram_id)
          => callers[p].ret._id = callers[q].ret._id

\* two callers raced for telegram_id 1: one inserted, the other got the
\* DuplicateKeyError, and both have returned
C7_Witness ==
    \E p, q \in Callers :
        /\ callers[p].pc = "done" /\ callers[p].via = "created"
        /\ callers[q].pc = "done" /\ callers[q].via = "duplicate"
        /\ callers[p].telegram_id = 1
        /\ callers[q].telegram_id = 1

NoDuplicateContracts ==
    \A i \in DOMAIN users :
        \A j, k \in DOMAIN users[i].contract_addresses :
            users[i].contract_addresses[j].contract_address
              = users[i].contract_addresses[k].contract_address => j = k

HasContract(u, a) ==
    \E j \in DOMAIN find_one(users, u).contract_addresses :
        find_one(users, u).contract_addresses[j].contract_address = a

\* C8: no user's contract list holds an address twice; a well-formed address
\* the user already has changes nothing stored and is answered by a warning.
C8_NoDuplicateContract ==
    /\ []NoDuplicateContracts
    /\ [][\A u \in TelegramIds :
            (/\ By(u, "handle_contract_address")'
             /\ validate_sol_address(Strip(update'.text))
             /\ HasContract(u, Strip(update'.text)))
            => users' = users /\ reply'.msg = "already_added"
         ]_vars

\* user 1 has pasted an address it already had
C8_Witness ==
    /\ By(1, "handle_contract_address")
    /\ reply.msg = "already_added"
    /\ HasContract(1, Strip(update.text))

\* C9: the PnL of a Call is (current - price_at_call) * units for a BUY,
\* (price_at_call - current) * units for a SELL, and 0 when the symbol has no
\* price in the mapping.
C9_ProfitFormula ==
    probe.fn = "calculate_profit" =>
        LET call == probe.call[1]
            q == probe.prices
        IN  IF call.crypto_symbol \notin DOMAIN q
            THEN probe.out = Fin(0)
            ELSE IF call.action = "BUY"
            THEN probe.out.k = "fin"
                 /\ probe.out.v = (q[call.crypto_symbol] - call.price_at_call)
                                    * call.number_of_units.v
            ELSE probe.out.k = "fin"
                 /\ probe.out.v = (call.price_at_call - q[call.crypto_symbol])
                                    * call.number_of_units.v

\* a SELL of 2.5 units at 100, now quoted at 80: a profit of 50.0
C9_Witness ==
    /\ probe.fn = "calculate_profit"
    /\ probe.call[1].action = "SELL"
    /\ probe.call[1].crypto_symbol = T_SOL
    /\ probe.call[1].price_at_call = 100
    /\ probe.call[1].number_of_units = Fin(25)
    /\ T_SOL \in DOMAIN probe.prices
    /\ probe.prices[T_SOL] = 80
    /\ probe.out = Fin(500)

RowsDescending(rows) ==
    \A i, j \in DOMAIN rows : i < j => ~FGreater(rows[j].pnl, rows[i].pnl)

\* C10: a leaderboard request, made when users and calls exist and the quote
\* provider has prices, is answered by the users in descending order of total
\* PnL, equal totals in first-seen order, at most 10 of them.
C10_LeaderboardRanked ==
    (/\ reply.handler = "leaderboard_command"
     /\ users # <<>>
     /\ calls # <<>>
     /\ \E i \in DOMAIN calls : calls[i].crypto_symbol \in DOMAIN oracle)
    => /\ reply.msg = "leaderboard"
       /\ reply.rows = top_rows(sorted_desc(user_pnls(users, calls, oracle)))
       /\ RowsDescending(reply.rows)
       /\ Len(reply.rows) <= TopN

\* the calls of get_current_prices for crypto_symbols that are over
Answered(crypto_symbols) ==
    {p \in Callers : /\ requests[p].pc \in {"raised", "returned"}
                     /\ requests[p].crypto_symbols = crypto_symbols}

\* C11: when all callers have asked for the same symbol set within one ttl
\* window, exactly one upstream fetch was issued for it and every caller got
\* the mapping of that fetch.
C11_SingleFlight ==
    \A crypto_symbols \in RequestSymbols :
        (/\ Answered(crypto_symbols) = Callers
         /\ \A p \in Callers : clock - requests[p].at < TTL)
        => /\ Cardinality({f \in upstream_fetches :
                              /\ f.crypto_symbols = crypto_symbols
                              /\ clock - f.at < TTL}) = 1
           /\ \A p \in Callers :
                 /\ requests[p].pc = "returned"
                 /\ requests[p].prices = fetch_quotes(crypto_symbols, oracle)

\* C12: a call for a symbol set whose last fetch is less than ttl seconds old
\* returns that fetch's mapping without an upstream fetch; a call for a symbol
\* set with no such fetch issues an upstream fetch and returns its mapping.
C12_TtlCache ==
    [][\A p \in Callers :
          (requests[p].pc = "lookup" /\ requests'[p].pc # "lookup")
          => LET crypto_symbols == requests[p].crypto_symbols
                 hits == FreshEntries(price_cache, crypto_symbols, clock)
             IN  IF hits # {}
                 THEN /\ requests'[p].pc = "returned"
                      /\ \E e \in hits : requests'[p].prices = e.value
                      /\ upstream_fetches' = upstream_fetches
                 ELSE /\ requests'[p].pc = "returned"
                      /\ [crypto_symbols |-> crypto_symbols, at |-> clock]
                            \in upstream_fetches' \ upstream_fetches
      ]_vars

\* C13: no call of get_current_prices ends by raising to its caller.
C13_GetPricesNeverRaises ==
    \A p \in Callers : requests[p].pc # "raised"

\* C14: no user has a trade-entry conversation and a wallet-registration
\* conversation open at the same time.
C14_OneOpenSession ==
    \A u \in TelegramIds : conv_add_wallet[u] = END \/ conv_buy_sell[u] = END

\* 1 to 5 uppercase letters
ValidSymbol(s) == Len(s) \in 1..5 /\ \A i \in DOMAIN s : s[i] \in Range(UpperChars)

\* C15: in AWAITING_SYMBOL the upper-cased input is stored and the session
\* moves on when it is 1 to 5 uppercase letters; any other input is answered
\* by a re-prompt, stores nothing and leaves the session in AWAITING_SYMBOL;
\* the symbol of every persisted Call is 1 to 5 uppercase letters.
C15_SymbolValidated ==
    /\ [](\A i \in DOMAIN calls : ValidSymbol(calls[i].crypto_symbol))
    /\ [][\A u \in Traders :
            (conv_buy_sell[u] = TRANSACTION_GET_SYMBOL /\ By(u, "transaction_get_symbol")')
            => IF ValidSymbol(Upper(Strip(update'.text)))
               THEN /\ user_data'[u].crypto_symbol = Upper(Strip(update'.text))
                    /\ conv_buy_sell'[u] = TRANSACTION_GET_UNITS
               ELSE /\ reply'.msg = "invalid_symbol"
                    /\ conv_buy_sell'[u] = TRANSACTION_GET_SYMBOL
                    /\ user_data' = user_data
                    /\ users' = users
                    /\ calls' = calls
         ]_vars

\* " sol" has just been accepted as SOL
C15_Witness ==
    /\ By(1, "transaction_get_symbol")
    /\ update.text = <<" ", "s", "o", "l">>
    /\ user_data[1].crypto_symbol = T_SOL
    /\ conv_buy_sell[1] = TRANSACTION_GET_UNITS

\* C16: in AWAITING_ACTION a callback other than BUY and SELL, or a text
\* message, is answered by the prompt for the transaction type, stores no
\* action and leaves the session in AWAITING_ACTION.
C16_OtherInputReprompts ==
    [][\A u \in Traders :
          (/\ conv_buy_sell[u] = TRANSACTION_GET_ACTION
           /\ update'.user = u
           /\ \/ update'.kind = "text"
              \/ update'.kind = "callback" /\ update'.data \notin {"BUY", "SELL"})
          => /\ conv_buy_sell'[u] = TRANSACTION_GET_ACTION
             /\ user_data'[u].transaction_action = user_data[u].transaction_action
             /\ reply'.msg \in {"select_type", "select_valid_type"}
      ]_vars

\* C17: valid units from a user who has no wallet end the session with the
\* guidance to add a wallet; the session does not enter AWAITING_WALLET and no
\* Call is persisted.
C17_NoWalletEndsSession ==
    [][\A u \in Traders :
          (/\ conv_buy_sell[u] = TRANSACTION_GET_UNITS
           /\ By(u, "transaction_get_units")'
           /\ FinitePositive(ParseFloat(Strip(update'.text)))
           /\ (IsNone(find_one(users, u)) \/ find_one(users, u).wallets = <<>>))
          => /\ reply'.msg = "no_wallets"
             /\ conv_buy_sell'[u] = END
             /\ calls' = calls
             /\ users' = users
      ]_vars

\* user 1, without a wallet, has just entered "2.5" and been sent to /addwallet
C17_Witness ==
    /\ By(1, "transaction_get_units")
    /\ update.text = <<"2", ".", "5">>
    /\ reply.msg = "no_wallets"
    /\ conv_buy_sell[1] = END
    /\ (IsNone(find_one(users, 1)) \/ find_one(users, 1).wallets = <<>>)
    /\ calls = <<>>

\* C18: a portfolio request of a user who has calls is answered by the total
\* of the PnL of that user's calls, each against the prices fetched for the
\* user's symbols; the calls of other users are not counted.
C18_PortfolioTotal ==
    \A u \in Traders :
        (/\ By(u, "portfolio_command")
         /\ ~IsNone(find_one(users, u))
         /\ calls_of(calls, find_one(users, u)._id) # <<>>)
        => /\ reply.msg = "portfolio"
           /\ reply.rows =
                <<[username |-> "total",
                   pnl |-> total_pnl(calls_of(calls, find_one(users, u)._id),
                              fetch_quotes(distinct_symbols(
                                  calls_of(calls, find_one(users, u)._id)), oracle))]>>

\* C19: the commit step persists a Call if and only if it answers with the
\* transaction confirmation; when it answers with an error no Call was added.
C19_CommitAtomic ==
    [][\A u \in Traders :
          By(u, "transaction_select_wallet")'
          => (calls' # calls <=> reply'.msg = "transaction_logged")
      ]_vars

\* w is w0 with nothing but, possibly, its balance changed
SameWalletButBalance(w0, w) == [w EXCEPT !.sol_balance = w0.sol_balance] = w0

IsPrefix(s0, s) == Len(s0) <= Len(s) /\ \A i \in DOMAIN s0 : s[i] = s0[i]

\* C20: every step keeps every User, Wallet, ContractAddress and Call there
\* is: the collections and the lists only grow at their end, and no field of
\* an existing record changes, except the balance of the wallet selected in a
\* trade commit, which belongs to the committing user.
C20_AppendOnly ==
    [][/\ IsPrefix(calls, calls')
       /\ Len(users) <= Len(users')
       /\ \A i \in DOMAIN users :
             /\ users'[i]._id = users[i]._id
             /\ users'[i].telegram_id = users[i].telegram_id
             /\ users'[i].username = users[i].username
             /\ IsPrefix(users[i].contract_addresses, users'[i].contract_addresses)
             /\ Len(users[i].wallets) <= Len(users'[i].wallets)
             /\ \A j \in DOMAIN users[i].wallets :
                   \/ users'[i].wallets[j] = users[i].wallets[j]
                   \/ /\ SameWalletButBalance(users[i].wallets[j], users'[i].wallets[j])
                      /\ By(users[i].telegram_id, "transaction_select_wallet")'
                      /\ users[i].wallets[j].wallet_id = update'.data
      ]_vars

\* user 1 holds a wallet and a contract address and has committed a trade on
\* that wallet, next to the record of user 2
C20_Witness ==
    /\ By(1, "transaction_select_wallet")
    /\ Len(users) = 2
    /\ calls # <<>>
    /\ find_one(users, 1).wallets # <<>>
    /\ find_one(users, 1).contract_addresses # <<>>
    /\ calls[Len(calls)].wallet_id = update.data

\* C21: a leaderboard or portfolio invocation makes at most one price request,
\* for all the distinct symbols it needs (those of all Calls, or of the
\* user's Calls), whatever the number of users and Calls; the request failing,
\* the invocation ends with its error message and no second request.
C21_OnePriceRequest ==
    /\ reply.handler = "leaderboard_command"
       => /\ Len(reply.price_requests) <= 1
          /\ calls # <<>> => reply.price_requests = <<distinct_symbols(calls)>>
    /\ \A u \in TelegramIds :
          By(u, "portfolio_command")
          => /\ Len(reply.price_requests) <= 1
             /\ calls_of(calls, find_one(users, u)._id) # <<>>
                => reply.price_requests
                     = <<distinct_symbols(calls_of(calls, find_one(users, u)._id))>>

\* a leaderboard over two users with a Call each, one in SOL and one in BTC:
\* one request for both symbols, which failed and was not repeated
C21_Witness ==
    /\ reply.handler = "leaderboard_command"
    /\ reply.msg = "error"
    /\ Len(calls) = 2
    /\ calls[1].user_id # calls[2].user_id
    /\ reply.price_requests = <<{T_SOL, T_BTC}>>

\* the wallet list of u, empty when u has no record yet
WalletsOf(coll, u) == find_one(coll, u).wallets

\* C22: in AWAITING_ADDRESS a malformed address is answered by a re-prompt,
\* stores nothing and leaves the session open; a valid address appends exactly
\* one wallet, with that address, to the sender's wallet list, touches nobody
\* else's, and ends the session; a cancel ends the session and stores nothing.
C22_WalletRegistration ==
    [][\A u \in TelegramIds :
          /\ (conv_add_wallet[u] = ADD_WALLET /\ By(u, "addwallet_receive")')
             => IF validate_sol_address(Strip(update'.text))
                THEN /\ Len(WalletsOf(users', u)) = Len(WalletsOf(users, u)) + 1
                     /\ IsPrefix(WalletsOf(users, u), WalletsOf(users', u))
                     /\ WalletsOf(users', u)[Len(WalletsOf(users', u))].sol_wallet_address
                          = Strip(update'.text)
                     /\ \A v \in TelegramIds \ {u} :
                           find_one(users', v) = find_one(users, v)
                     /\ conv_add_wallet'[u] = END
                ELSE /\ reply'.msg = "invalid_address"
                     /\ users' = users
                     /\ conv_add_wallet'[u] = ADD_WALLET
          /\ (conv_add_wallet[u] = ADD_WALLET /\ By(u, "addwallet_cancel")')
             => /\ users' = users
                /\ conv_add_wallet'[u] = END
      ]_vars

\* user 2 has just registered a second wallet, next to user 1 who has one
C22_Witness ==
    /\ By(2, "addwallet_receive")
    /\ reply.msg = "wallet_added"
    /\ conv_add_wallet[2] = END
    /\ Len(WalletsOf(users, 2)) = 2
    /\ Len(WalletsOf(users, 1)) = 1

\* C25: the wallet_id values of one user's wallet list are pairwise distinct.
C25_WalletIdsDistinct ==
    \A i \in DOMAIN users :
        \A j, k \in DOMAIN users[i].wallets :
            users[i].wallets[j].wallet_id = users[i].wallets[k].wallet_id => j = k

\* C23: updates are applied in arrival order, one at a time: at most one
\* handler is running, it runs in the state it was chosen for, and handlers
\* return in the order in which their updates arrived.
C23_ArrivalOrder ==
    /\ Cardinality(running) <= 1
    /\ \A r \in running : r.handler = RouteOf(r.update.user, r.update.kind, r.update.data)
    /\ \A i \in DOMAIN finished : finished[i] = i
    /\ \A r \in running : r.seq = Len(finished) + 1
    /\ \A i \in DOMAIN inbox : inbox[i].seq = Len(finished) + Cardinality(running) + i

\* /buy, the BUY button and "SOL" have been handled in that order, and the
\* handler of a fourth update is running
C23_Witness ==
    /\ finished = <<1, 2, 3>>
    /\ conv_buy_sell[1] = TRANSACTION_GET_UNITS
    /\ user_data[1].crypto_symbol = T_SOL
    /\ Cardinality(running) = 1

\* the answers a handler gives from its except branch
FailureMessages == {"error", "error_logging"}

C26_SameSessionInputs ==
    [][Len(calls') > Len(calls)
         => \E k \in DOMAIN conv_buy_sell :
               /\ conv_buy_sell[k] = TRANSACTION_SELECT_WALLET
               /\ conv_buy_sell'[k] = END
               /\ calls'[Len(calls')].action = session_inputs[k].transaction_action
               /\ calls'[Len(calls')].crypto_symbol = session_inputs[k].crypto_symbol
               /\ calls'[Len(calls')].number_of_units = session_inputs[k].number_of_units]_vars

\* C27: every Call a commit step persists names a wallet that is in the wallet
\* list of the Call's own user when the step runs, it is the wallet that was
\* selected, and the Call's user_id is the id of the user who selected it.
C27_CallOwnerAndWallet ==
    [][Len(calls') > Len(calls)
         => LET call == calls'[Len(calls')]
                user == find_one(users, update'.user)
            IN  /\ update'.kind = "callback"
                /\ ~IsNone(user)
                /\ call.user_id = user._id
                /\ call.wallet_id = update'.data
                /\ \E j \in DOMAIN user.wallets : user.wallets[j].wallet_id = call.wallet_id
                /\ \A i \in DOMAIN users :
                      users[i]._id = call.user_id => users[i].telegram_id = update'.user]_vars

\* user 2 was stored first, and user 1, stored second, has committed a trade
\* on the wallet w1
C27_Witness ==
    /\ By(1, "transaction_select_wallet")
    /\ Len(calls) = 1
    /\ Len(users) = 2
    /\ users[1].telegram_id = 2
    /\ calls[1].user_id = 2
    /\ calls[1].wallet_id = "w1"
    /\ HasWallet(1, "w1")

\* C28: at the wallet step, a selection (a pressed button) whose value is not
\* the wallet_id of one of the user's wallets ends the session with no new
\* prompt for a wallet, persists no Call and changes no wallet balance.
C28_UnknownWalletEndsSession ==
    [][\A u \in TelegramIds :
          /\ conv_buy_sell[u] = TRANSACTION_SELECT_WALLET
          /\ update'.user = u
          /\ update'.kind = "callback"
          /\ ~HasWallet(u, update'.data)
          => /\ conv_buy_sell'[u] = END
             /\ calls' = calls
             /\ users' = users]_vars

\* the contract lists of the users, a user not yet stored having none
ContractsOf(coll, i) == IF i \in DOMAIN coll THEN coll[i].contract_addresses ELSE <<>>

\* C29: a text message that an open conversation step takes (the address of
\* the wallet registration, the symbol or the units of the trade entry) is
\* handled by that step alone and adds no contract address, also when it is a
\* well-formed address; a text message that no open step takes is handled by
\* handle_contract_address.
C29_TextGoesToOneHandler ==
    [][\A u \in TelegramIds :
          update'.user = u /\ update'.kind = "text"
          => IF conv_add_wallet[u] = ADD_WALLET
             THEN /\ reply'.handler = "addwallet_receive"
                  /\ \A i \in DOMAIN users' : ContractsOf(users', i) = ContractsOf(users, i)
             ELSE IF conv_buy_sell[u] \in {TRANSACTION_GET_SYMBOL, TRANSACTION_GET_UNITS}
             THEN /\ reply'.handler = IF conv_buy_sell[u] = TRANSACTION_GET_SYMBOL
                                      THEN "transaction_get_symbol"
                                      ELSE "transaction_get_units"
                  /\ users' = users
             ELSE /\ reply'.handler = "handle_contract_address"
                  /\ validate_sol_address(Strip(update'.text))
                     => \E j \in DOMAIN find_one(users', u).contract_addresses :
                           find_one(users', u).contract_addresses[j].contract_address
                              = Strip(update'.text)]_vars

\* a well-formed address sent at the symbol step was taken as a symbol (and
\* refused) and is no contract address of the user, who also had an address
\* taken by the wallet registration
C29_Witness ==
    /\ By(1, "transaction_get_symbol")
    /\ update.text = ADDR_A
    /\ validate_sol_address(Strip(update.text))
    /\ reply.msg = "invalid_symbol"
    /\ HasWallet(1, "w1")
    /\ find_one(users, 1).contract_addresses = <<>>

====
